---- MODULE Spec2Model ----
(***************************************************************************)
(* Text normalisation, deduplication and recursive chunking of the         *)
(* itp-rag-processor embedding service, as a state machine.                *)
(*                                                                         *)
(* Strings are sequences of one-character strings.  Every caller (a        *)
(* request being served) is a process p with a program counter pc[p], the  *)
(* arguments of the call in flight args[p], the local variables of the     *)
(* call (stack[p] for _recursive_split, dedup[p] for deduplicate_texts)    *)
(* and the value returned, result[p].  The only state shared between       *)
(* callers is the configuration of the NormalizeService instance.          *)
(***************************************************************************)
EXTENDS Integers, Sequences, FiniteSets, TLC

VARIABLES
    _normalize_service,     \* the module-level variable of normalize_service.py
    instances,              \* how many NormalizeService objects have been constructed
    similarity_threshold,   \* NormalizeService.similarity_threshold, in hundredths
    min_text_length,        \* NormalizeService.min_text_length
    pc,                     \* pc[p]: where caller p is
    args,                   \* args[p]: the call caller p has in flight
    stack,                  \* stack[p]: frames of the call in flight, innermost last
    dedup,                  \* dedup[p]: locals of deduplicate_texts
    result                  \* result[p]: the value the call returned

vars == <<_normalize_service, instances, similarity_threshold, min_text_length,
          pc, args, stack, dedup, result>>

(***************************************************************************)
(* Bounds of the model.                                                    *)
(***************************************************************************)
MaxTextLen == 5
MaxChunkSize == 3

Procs == {1, 2}

NL == "\n"
SP == " "
BT == "U+0060"   \* the backtick

(***************************************************************************)
(* Python str and list primitives.                                         *)
(***************************************************************************)
SeqsUpTo(S, n) == UNION {[1..k -> S] : k \in 0..n}

Drop(s, n) == SubSeq(s, n + 1, Len(s))

\* text[i:i+len(sep)] == sep
StartsWithAt(text, sep, i) ==
    /\ i + Len(sep) - 1 <= Len(text)
    /\ SubSeq(text, i, i + Len(sep) - 1) = sep

\* `sep in text`
Contains(text, sep) ==
    \/ sep = <<>>
    \/ \E i \in 1..Len(text) : StartsWithAt(text, sep, i)

\* text.find(sep) + 1, for a non-empty sep: 0 when sep does not occur
Find(text, sep) ==
    IF \E i \in 1..Len(text) : StartsWithAt(text, sep, i)
    THEN CHOOSE i \in 1..Len(text) :
            /\ StartsWithAt(text, sep, i)
            /\ \A j \in 1..(i - 1) : ~StartsWithAt(text, sep, j)
    ELSE 0

\* text.split(sep) for a non-empty sep: occurrences are taken left to right,
\* without overlap, and the result always has at least one piece
RECURSIVE StrSplit(_, _)
StrSplit(text, sep) ==
    LET i == Find(text, sep)
    IN  IF i = 0 THEN <<text>>
        ELSE <<SubSeq(text, 1, i - 1)>> \o StrSplit(Drop(text, i + Len(sep) - 1), sep)

\* sep.join(pieces)
RECURSIVE StrJoin(_, _)
StrJoin(sep, pieces) ==
    IF pieces = <<>> THEN <<>>
    ELSE IF Len(pieces) = 1 THEN pieces[1]
    ELSE pieces[1] \o sep \o StrJoin(sep, Tail(pieces))

\* list(text)
CharList(text) == [i \in 1..Len(text) |-> <<text[i]>>]

\* the characters str.strip() removes and str.split() splits at, the ones the
\* model names
Whitespace ==
    {SP, NL, "\t", "\r", "\f", "U+000B", "U+001C", "U+001D", "U+001E", "U+001F",
     "U+0085", "U+00A0"}

Uppercase == <<"A", "B", "C", "D", "E", "F", "G", "H", "I", "J", "K", "L", "M",
               "N", "O", "P", "Q", "R", "S", "T", "U", "V", "W", "X", "Y", "Z">>
Lowercase == <<"a", "b", "c", "d", "e", "f", "g", "h", "i", "j", "k", "l", "m",
               "n", "o", "p", "q", "r", "s", "t", "u", "v", "w", "x", "y", "z">>

\* text.lower()
Lower(text) ==
    [i \in 1..Len(text) |->
        IF \E k \in 1..Len(Uppercase) : Uppercase[k] = text[i]
        THEN Lowercase[CHOOSE k \in 1..Len(Uppercase) : Uppercase[k] = text[i]]
        ELSE text[i]]

\* text.strip()
Strip(text) ==
    LET Solid == {i \in 1..Len(text) : text[i] \notin Whitespace}
    IN  IF Solid = {} THEN <<>>
        ELSE SubSeq(text,
                    CHOOSE i \in Solid : \A j \in Solid : i <= j,
                    CHOOSE i \in Solid : \A j \in Solid : j <= i)

\* text[:n]
Take(text, n) == SubSeq(text, 1, IF n < Len(text) THEN n ELSE Len(text))

(***************************************************************************)
(* EmbeddingService.chunk_text and _recursive_split.                       *)
(***************************************************************************)
\* separators = ["\n\n", "\n", " ", ""]
DefaultSeparators == << <<NL, NL>>, <<NL>>, <<SP>>, <<>> >>

\* (mutant) the lowest-priority separator that occurs in the text is chosen
SelectSeparator_Lowest(text, separators, i) ==
    LET Occurring == {j \in i..Len(separators) :
                        separators[j] # <<>> /\ Contains(text, separators[j])}
    IN  IF Occurring = {} THEN [separator |-> <<>>, new_separators |-> <<>>]
        ELSE LET j == CHOOSE j \in Occurring : \A h \in Occurring : h <= j
             IN  [separator |-> separators[j],
                  new_separators |-> SubSeq(separators, j + 1, Len(separators))]

\* (mutant) the recursive calls get the list from the chosen separator on, the
\* chosen separator included
RECURSIVE SelectSeparator_KeepsChosen(_, _, _)
SelectSeparator_KeepsChosen(text, separators, i) ==
    IF i > Len(separators)
    THEN [separator |-> separators[Len(separators)], new_separators |-> <<>>]
    ELSE IF separators[i] = <<>>
    THEN [separator |-> <<>>, new_separators |-> <<>>]
    ELSE IF Contains(text, separators[i])
    THEN [separator |-> separators[i],
          new_separators |-> SubSeq(separators, i, Len(separators))]
    ELSE SelectSeparator_KeepsChosen(text, separators, i + 1)

\* The separator loop: the first separator that is empty or occurs in the
\* text; separators[-1] and no separators left when the loop runs out.
RECURSIVE SelectSeparator(_, _, _)
SelectSeparator(text, separators, i) ==
    IF i > Len(separators)
    THEN [separator |-> separators[Len(separators)], new_separators |-> <<>>]
    ELSE IF separators[i] = <<>>
    THEN [separator |-> <<>>, new_separators |-> <<>>]
    ELSE IF Contains(text, separators[i])
    THEN [separator |-> separators[i],
          new_separators |-> SubSeq(separators, i + 1, Len(separators))]
    ELSE SelectSeparator(text, separators, i + 1)

\* The locals of a fresh invocation of _recursive_split, before its piece loop.
EnterSplit(text, separators) ==
    LET sel == SelectSeparator(text, separators, 1)
    IN  [text            |-> text,
         separator       |-> sel.separator,
         new_separators  |-> sel.new_separators,
         splits          |-> IF sel.separator # <<>>
                             THEN StrSplit(text, sel.separator)
                             ELSE CharList(text),
         idx             |-> 1,
         final_chunks    |-> <<>>,
         current_chunk   |-> <<>>,
         current_length  |-> 0]

\* (mutant) no piece is carried over into the next accumulator
OverlapSeed_Nothing(current_chunk, separator, chunk_overlap, i, overlap_chunk, overlap_len) ==
    [overlap_chunk |-> <<>>, overlap_len |-> 0]

\* The backward scan that picks the overlap seed out of the flushed pieces.
RECURSIVE OverlapSeed(_, _, _, _, _, _)
OverlapSeed(current_chunk, separator, chunk_overlap, i, overlap_chunk, overlap_len) ==
    IF i < 1
    THEN [overlap_chunk |-> overlap_chunk, overlap_len |-> overlap_len]
    ELSE LET element == current_chunk[i]
             added_len == Len(element) + (IF overlap_len > 0 THEN Len(separator) ELSE 0)
         IN  IF overlap_len + added_len > chunk_overlap
             THEN [overlap_chunk |-> overlap_chunk, overlap_len |-> overlap_len]
             ELSE OverlapSeed(current_chunk, separator, chunk_overlap, i - 1,
                              <<element>> \o overlap_chunk, overlap_len + added_len)

\* (mutant) the accumulator is appended to final_chunks in front of an
\* oversized piece and kept
FlushBeforeOversized_Kept(f) ==
    IF f.current_chunk # <<>>
    THEN [f EXCEPT !.final_chunks = Append(@, StrJoin(f.separator, f.current_chunk))]
    ELSE f

\* (mutant) the accumulator is emptied in front of an oversized piece without
\* being appended to final_chunks
FlushBeforeOversized_Dropped(f) ==
    [f EXCEPT !.current_chunk = <<>>, !.current_length = 0]

\* `if current_chunk:` flush in front of an oversized piece
FlushBeforeOversized(f) ==
    IF f.current_chunk # <<>>
    THEN [f EXCEPT !.final_chunks = Append(@, StrJoin(f.separator, f.current_chunk)),
                   !.current_chunk = <<>>,
                   !.current_length = 0]
    ELSE f

\* One pass of the piece loop over a piece that is not oversized: flush and
\* seed when the piece does not fit, then append the piece.
AddSplit(f, split, chunk_size, chunk_overlap) ==
    LET split_len == Len(split)
        sep_len == IF f.current_length > 0 THEN Len(f.separator) ELSE 0
        full == f.current_length + sep_len + split_len > chunk_size
        seed == OverlapSeed(f.current_chunk, f.separator, chunk_overlap,
                            Len(f.current_chunk), <<>>, 0)
        g == IF full /\ f.current_chunk # <<>>
             THEN [f EXCEPT !.final_chunks = Append(@, StrJoin(f.separator, f.current_chunk)),
                            !.current_chunk = seed.overlap_chunk,
                            !.current_length = seed.overlap_len]
             ELSE f
        appended == Append(g.current_chunk, split)
    IN  [g EXCEPT !.current_chunk = appended,
                  !.current_length = @ + split_len
                        + (IF Len(appended) > 1 THEN Len(f.separator) ELSE 0),
                  !.idx = @ + 1]

\* `if current_chunk:` after the loop, and the list returned
FinalChunks(f) ==
    IF f.current_chunk # <<>>
    THEN Append(f.final_chunks, StrJoin(f.separator, f.current_chunk))
    ELSE f.final_chunks

\* _recursive_split as a function: the piece loop from the locals f to the
\* end, recursive calls included, and the list returned
RECURSIVE RecursiveSplit(_, _, _, _)
RECURSIVE RunSplit(_, _, _)
RunSplit(f, chunk_size, chunk_overlap) ==
    IF f.idx > Len(f.splits) THEN FinalChunks(f)
    ELSE LET split == f.splits[f.idx]
         IN  IF Len(split) > chunk_size
             THEN RunSplit(
                    [FlushBeforeOversized(f) EXCEPT
                        !.idx = @ + 1,
                        !.final_chunks = @ \o
                            (IF f.new_separators # <<>>
                             THEN RecursiveSplit(split, chunk_size, chunk_overlap,
                                                 f.new_separators)
                             ELSE <<split>>)],
                    chunk_size, chunk_overlap)
             ELSE RunSplit(AddSplit(f, split, chunk_size, chunk_overlap),
                           chunk_size, chunk_overlap)

RecursiveSplit(text, chunk_size, chunk_overlap, separators) ==
    RunSplit(EnterSplit(text, separators), chunk_size, chunk_overlap)

\* chunk_text as a function
ChunkText(text, chunk_size, chunk_overlap) ==
    IF text = <<>> THEN <<>>
    ELSE RecursiveSplit(text, chunk_size, chunk_overlap, DefaultSeparators)

Top(p) == stack[p][Len(stack[p])]
SetTop(p, f) == [stack[p] EXCEPT ![Len(stack[p])] = f]

ChunkTexts == SeqsUpTo({"a", "b", SP, NL}, MaxTextLen)

\* (mutant) chunk_text raises for an empty text instead of returning []
ChunkTextCalled_EmptyRejected(p, text, chunk_size, chunk_overlap) ==
    /\ pc[p] = "idle"
    /\ args' = [args EXCEPT ![p] = [op |-> "chunk_text", text |-> text,
                                    chunk_size |-> chunk_size,
                                    chunk_overlap |-> chunk_overlap]]
    /\ IF text = <<>>
       THEN /\ pc' = [pc EXCEPT ![p] = "done"]
            /\ result' = [result EXCEPT ![p] = [raised |-> TRUE, value |-> <<>>]]
            /\ UNCHANGED stack
       ELSE /\ pc' = [pc EXCEPT ![p] = "split"]
            /\ stack' = [stack EXCEPT ![p] = <<EnterSplit(text, DefaultSeparators)>>]
            /\ UNCHANGED result
    /\ UNCHANGED <<_normalize_service, instances, similarity_threshold, min_text_length, dedup>>

\* chunk_text(text, chunk_size, chunk_overlap): empty text returns [] at once,
\* any other text enters _recursive_split with the default separators.
ChunkTextCalled(p, text, chunk_size, chunk_overlap) ==
    /\ pc[p] = "idle"
    /\ args' = [args EXCEPT ![p] = [op |-> "chunk_text", text |-> text,
                                    chunk_size |-> chunk_size,
                                    chunk_overlap |-> chunk_overlap]]
    /\ IF text = <<>>
       THEN /\ pc' = [pc EXCEPT ![p] = "done"]
            /\ result' = [result EXCEPT ![p] = [raised |-> FALSE, value |-> <<>>]]
            /\ UNCHANGED stack
       ELSE /\ pc' = [pc EXCEPT ![p] = "split"]
            /\ stack' = [stack EXCEPT ![p] = <<EnterSplit(text, DefaultSeparators)>>]
            /\ UNCHANGED result
    /\ UNCHANGED <<_normalize_service, instances, similarity_threshold, min_text_length, dedup>>

CallChunkText(p) ==
    /\ pc[p] = "idle"
    /\ \E text \in ChunkTexts, chunk_size \in 0..MaxChunkSize, chunk_overlap \in 0..MaxChunkSize :
            ChunkTextCalled(p, text, chunk_size, chunk_overlap)

\* Piece loop, a piece longer than chunk_size: flush, then recurse on the piece
\* with the lower-priority separators, or emit it verbatim when none are left.
SplitOversized(p) ==
    /\ pc[p] = "split"
    /\ LET f == Top(p)
       IN  /\ f.idx <= Len(f.splits)
           /\ Len(f.splits[f.idx]) > args[p].chunk_size
           /\ LET g == [FlushBeforeOversized(f) EXCEPT !.idx = @ + 1]
                  split == f.splits[f.idx]
              IN  IF f.new_separators # <<>>
                  THEN stack' = [stack EXCEPT ![p] =
                                    Append(SetTop(p, g), EnterSplit(split, f.new_separators))]
                  ELSE stack' = [stack EXCEPT ![p] =
                                    SetTop(p, [g EXCEPT !.final_chunks = Append(@, split)])]
    /\ UNCHANGED <<_normalize_service, instances, similarity_threshold, min_text_length, pc, args, dedup, result>>

\* Piece loop, a piece that is not oversized.
SplitFits(p) ==
    /\ pc[p] = "split"
    /\ LET f == Top(p)
       IN  /\ f.idx <= Len(f.splits)
           /\ Len(f.splits[f.idx]) <= args[p].chunk_size
           /\ stack' = [stack EXCEPT ![p] =
                            SetTop(p, AddSplit(f, f.splits[f.idx], args[p].chunk_size,
                                               args[p].chunk_overlap))]
    /\ UNCHANGED <<_normalize_service, instances, similarity_threshold, min_text_length, pc, args, dedup, result>>

\* The loop is over: the last flush and the return, into the caller's
\* final_chunks (final_chunks.extend(sub_chunks)) or out of chunk_text.
SplitReturn(p) ==
    /\ pc[p] = "split"
    /\ LET f == Top(p)
           n == Len(stack[p])
       IN  /\ f.idx > Len(f.splits)
           /\ IF n > 1
              THEN /\ stack' = [stack EXCEPT ![p] =
                            [SubSeq(stack[p], 1, n - 1) EXCEPT
                                ![n - 1].final_chunks = @ \o FinalChunks(f)]]
                   /\ UNCHANGED <<pc, result>>
              ELSE /\ stack' = [stack EXCEPT ![p] = <<>>]
                   /\ pc' = [pc EXCEPT ![p] = "done"]
                   /\ result' = [result EXCEPT ![p] =
                                    [raised |-> FALSE, value |-> FinalChunks(f)]]
    /\ UNCHANGED <<_normalize_service, instances, similarity_threshold, min_text_length, args, dedup>>

(***************************************************************************)
(* difflib.SequenceMatcher(None, a, b).ratio(), as calculate_similarity    *)
(* uses it.  Indices are Python's: 0-based, ranges half open.              *)
(***************************************************************************)
\* __chain_b: with autojunk, elements of b that occur more than len(b)//100 + 1
\* times in a b of 200 or more elements are left out of the index b2j
Popular(b) ==
    IF Len(b) >= 200
    THEN {c \in {b[i] : i \in 1..Len(b)} :
            Cardinality({i \in 1..Len(b) : b[i] = c}) > (Len(b) \div 100) + 1}
    ELSE {}

\* j2len[j] after row i of find_longest_match: the length of the run of
\* indexed matches that ends at a[i], b[j] inside a[alo:], b[blo:]
RECURSIVE RunEndingAt(_, _, _, _, _, _, _)
RunEndingAt(a, b, bpopular, i, j, alo, blo) ==
    IF i < alo \/ j < blo THEN 0
    ELSE IF a[i + 1] = b[j + 1] /\ b[j + 1] \notin bpopular
    THEN 1 + RunEndingAt(a, b, bpopular, i - 1, j - 1, alo, blo)
    ELSE 0

\* how many times a `while` loop of find_longest_match runs: of the steps
\* 1..room, those before the first one of stops, where the elements differ
Extent(room, stops) ==
    IF stops = {} THEN (IF room > 0 THEN room ELSE 0)
    ELSE (CHOOSE t \in stops : \A u \in stops : t <= u) - 1

\* the first two `while` loops: the block grows over equal elements on both sides
ExtendLeft(a, b, m, alo, blo) ==
    LET room == IF m.i - alo < m.j - blo THEN m.i - alo ELSE m.j - blo
        k == Extent(room, {t \in 1..room : a[m.i - t + 1] # b[m.j - t + 1]})
    IN  [i |-> m.i - k, j |-> m.j - k, size |-> m.size + k]

ExtendRight(a, b, m, ahi, bhi) ==
    LET room == IF ahi - m.i - m.size < bhi - m.j - m.size
                THEN ahi - m.i - m.size ELSE bhi - m.j - m.size
        k == Extent(room, {t \in 1..room : a[m.i + m.size + t] # b[m.j + m.size + t]})
    IN  [m EXCEPT !.size = @ + k]

\* find_longest_match: the longest block; of several, the one whose end comes
\* first in a, and then first in b (`k > bestsize` keeps the first found)
FindLongestMatch(a, b, bpopular, alo, ahi, blo, bhi) ==
    LET Ends == {e \in (alo..(ahi - 1)) \X (blo..(bhi - 1)) :
                    RunEndingAt(a, b, bpopular, e[1], e[2], alo, blo) > 0}
        Size(e) == RunEndingAt(a, b, bpopular, e[1], e[2], alo, blo)
        Before(e, f) == e[1] < f[1] \/ (e[1] = f[1] /\ e[2] <= f[2])
        Longest == {e \in Ends : \A f \in Ends : Size(f) <= Size(e)}
        best == CHOOSE e \in Longest : \A f \in Longest : Before(e, f)
        found == IF Ends = {} THEN [i |-> alo, j |-> blo, size |-> 0]
                 ELSE [i |-> best[1] - Size(best) + 1,
                       j |-> best[2] - Size(best) + 1,
                       size |-> Size(best)]
    IN  ExtendRight(a, b, ExtendLeft(a, b, found, alo, blo), ahi, bhi)

\* get_matching_blocks and the sum ratio() takes over it: the block, then the
\* blocks of what is left of it and of what is right of it
RECURSIVE Matches(_, _, _, _, _, _, _)
Matches(a, b, bpopular, alo, ahi, blo, bhi) ==
    LET m == FindLongestMatch(a, b, bpopular, alo, ahi, blo, bhi)
    IN  IF m.size = 0 THEN 0
        ELSE m.size
             + (IF alo < m.i /\ blo < m.j
                THEN Matches(a, b, bpopular, alo, m.i, blo, m.j) ELSE 0)
             + (IF m.i + m.size < ahi /\ m.j + m.size < bhi
                THEN Matches(a, b, bpopular, m.i + m.size, ahi, m.j + m.size, bhi) ELSE 0)

\* ratio(): 2.0 * matches / length, kept as the pair; 1.0 when length is 0
Ratio(a, b) ==
    [matches |-> Matches(a, b, Popular(b), 0, Len(a), 0, Len(b)), length |-> Len(a) + Len(b)]

\* x == y for two ratios
RatioEq(x, y) ==
    IF x.length = 0 \/ y.length = 0
    THEN (IF x.length = 0 THEN 1 ELSE 2 * x.matches) * (IF y.length = 0 THEN 1 ELSE y.length)
         = (IF y.length = 0 THEN 1 ELSE 2 * y.matches) * (IF x.length = 0 THEN 1 ELSE x.length)
    ELSE 2 * x.matches * y.length = 2 * y.matches * x.length

\* (mutant) x > threshold
RatioAtLeast_Above(x, threshold) ==
    IF x.length = 0 THEN 100 > threshold
    ELSE 200 * x.matches > threshold * x.length

\* x >= threshold, the threshold in hundredths
RatioAtLeast(x, threshold) ==
    IF x.length = 0 THEN 100 >= threshold
    ELSE 200 * x.matches >= threshold * x.length

(***************************************************************************)
(* NormalizeService.calculate_similarity and deduplicate_texts.            *)
(***************************************************************************)
\* (mutant) the texts are compared without lower-casing
CalculateSimilarity_CaseSensitive(text1, text2) == Ratio(Strip(text1), Strip(text2))

\* SequenceMatcher(None, text1.lower().strip(), text2.lower().strip()).ratio()
CalculateSimilarity(text1, text2) == Ratio(Strip(Lower(text1)), Strip(Lower(text2)))

SignatureLen == 200

\* signature = text.lower().strip()[:200]
Signature(text) == Take(Strip(Lower(text)), SignatureLen)

NoDedup ==
    [texts |-> <<>>, idx |-> 0, unique_texts |-> <<>>, removed_indices |-> <<>>,
     seen_signatures |-> {}]

\* (mutant) the signature is kept in place of the text
VisitText_KeepsSignature(d, min_len, threshold) ==
    LET text == d.texts[d.idx + 1]
        signature == Signature(text)
        removed == [d EXCEPT !.removed_indices = Append(@, d.idx), !.idx = @ + 1]
    IN  IF Len(text) < min_len THEN removed
        ELSE IF signature \in d.seen_signatures THEN removed
        ELSE IF \E k \in 1..Len(d.unique_texts) :
                    RatioAtLeast(CalculateSimilarity(text, d.unique_texts[k]), threshold)
        THEN removed
        ELSE [d EXCEPT !.unique_texts = Append(@, signature),
                       !.seen_signatures = @ \cup {signature},
                       !.idx = @ + 1]

\* (mutant) the fuzzy check looks at the text visited just before, kept or not
VisitText_AgainstPrevious(d, min_len, threshold) ==
    LET text == d.texts[d.idx + 1]
        signature == Signature(text)
        removed == [d EXCEPT !.removed_indices = Append(@, d.idx), !.idx = @ + 1]
    IN  IF Len(text) < min_len THEN removed
        ELSE IF signature \in d.seen_signatures THEN removed
        ELSE IF d.idx >= 1
                /\ RatioAtLeast(CalculateSimilarity(text, d.texts[d.idx]), threshold)
        THEN removed
        ELSE [d EXCEPT !.unique_texts = Append(@, text),
                       !.seen_signatures = @ \cup {signature},
                       !.idx = @ + 1]

\* One pass of `for idx, text in enumerate(texts)`.
VisitText(d, min_len, threshold) ==
    LET text == d.texts[d.idx + 1]
        signature == Signature(text)
        removed == [d EXCEPT !.removed_indices = Append(@, d.idx), !.idx = @ + 1]
    IN  IF Len(text) < min_len THEN removed
        ELSE IF signature \in d.seen_signatures THEN removed
        ELSE IF \E k \in 1..Len(d.unique_texts) :
                    RatioAtLeast(CalculateSimilarity(text, d.unique_texts[k]), threshold)
        THEN removed
        ELSE [d EXCEPT !.unique_texts = Append(@, text),
                       !.seen_signatures = @ \cup {signature},
                       !.idx = @ + 1]

\* what deduplicate_texts returns after the loop
DedupValue(d, return_indices) ==
    IF return_indices
    THEN [texts |-> d.unique_texts,
          removed_indices |-> d.removed_indices,
          original_count |-> Len(d.texts),
          deduplicated_count |-> Len(d.unique_texts)]
    ELSE d.unique_texts

\* what deduplicate_texts returns for `not texts`
DedupEmptyValue(return_indices) ==
    IF return_indices THEN [texts |-> <<>>, removed_indices |-> <<>>] ELSE <<>>

\* deduplicate_texts as a function: the loop run from the locals d to its end
RECURSIVE DedupLoop(_, _, _)
DedupLoop(d, min_len, threshold) ==
    IF d.idx >= Len(d.texts) THEN d
    ELSE DedupLoop(VisitText(d, min_len, threshold), min_len, threshold)

DeduplicateTexts(texts, return_indices, min_len, threshold) ==
    IF texts = <<>> THEN DedupEmptyValue(return_indices)
    ELSE DedupValue(DedupLoop([NoDedup EXCEPT !.texts = texts], min_len, threshold),
                    return_indices)

DedupTexts ==
    { <<>>, <<"a">>, <<"A">>, <<"b">>, <<SP, "a">>, <<"a", "b">>, <<"A", "b">>,
      <<"b", "a">>, <<"a", "b", "b">>, <<"a", "b", "a">> }

MaxTexts == 3

\* deduplicate_texts(texts, return_indices)
DeduplicateTextsCalled(p, texts, return_indices) ==
    /\ pc[p] = "idle"
    /\ args' = [args EXCEPT ![p] = [op |-> "deduplicate_texts", texts |-> texts,
                                    return_indices |-> return_indices]]
    /\ IF texts = <<>>
       THEN /\ pc' = [pc EXCEPT ![p] = "done"]
            /\ result' = [result EXCEPT ![p] =
                            [raised |-> FALSE, value |-> DedupEmptyValue(return_indices)]]
            /\ UNCHANGED dedup
       ELSE /\ pc' = [pc EXCEPT ![p] = "dedup"]
            /\ dedup' = [dedup EXCEPT ![p] = [NoDedup EXCEPT !.texts = texts]]
            /\ UNCHANGED result
    /\ UNCHANGED <<_normalize_service, instances, similarity_threshold, min_text_length, stack>>

CallDeduplicateTexts(p) ==
    /\ pc[p] = "idle"
    /\ \E texts \in SeqsUpTo(DedupTexts, MaxTexts), return_indices \in BOOLEAN :
            DeduplicateTextsCalled(p, texts, return_indices)

\* (mutant) the loop's locals are kept on the instance, one frame for all callers
DedupVisit_SharedLocals(p) ==
    /\ pc[p] = "dedup"
    /\ dedup[p].idx < Len(dedup[p].texts)
    /\ dedup' = [q \in Procs |-> VisitText(dedup[p], min_text_length, similarity_threshold)]
    /\ UNCHANGED <<_normalize_service, instances, similarity_threshold, min_text_length, pc, args, stack, result>>

\* the loop body, with the configuration as the instance holds it now
DedupVisit(p) ==
    /\ pc[p] = "dedup"
    /\ dedup[p].idx < Len(dedup[p].texts)
    /\ dedup' = [dedup EXCEPT ![p] = VisitText(dedup[p], min_text_length, similarity_threshold)]
    /\ UNCHANGED <<_normalize_service, instances, similarity_threshold, min_text_length, pc, args, stack, result>>

\* the loop is over: deduplicate_texts returns (to normalize_batch, which
\* returns the list as it is)
DedupReturn(p) ==
    /\ pc[p] = "dedup"
    /\ dedup[p].idx = Len(dedup[p].texts)
    /\ pc' = [pc EXCEPT ![p] = "done"]
    /\ result' = [result EXCEPT ![p] =
            [raised |-> FALSE,
             value |-> DedupValue(dedup[p], IF args[p].op = "deduplicate_texts"
                                            THEN args[p].return_indices ELSE FALSE)]]
    /\ dedup' = [dedup EXCEPT ![p] = NoDedup]
    /\ UNCHANGED <<_normalize_service, instances, similarity_threshold, min_text_length, args, stack>>

MaxSimLen == 4

SimTexts == SeqsUpTo({"a", "b"}, MaxSimLen) \cup DedupTexts

\* calculate_similarity is called
CallCalculateSimilarity(p) ==
    /\ pc[p] = "idle"
    /\ \E text1 \in SimTexts, text2 \in SimTexts :
        /\ args' = [args EXCEPT ![p] = [op |-> "calculate_similarity",
                                        text1 |-> text1, text2 |-> text2]]
        /\ result' = [result EXCEPT ![p] =
                        [raised |-> FALSE, value |-> CalculateSimilarity(text1, text2)]]
    /\ pc' = [pc EXCEPT ![p] = "done"]
    /\ UNCHANGED <<_normalize_service, instances, similarity_threshold, min_text_length, stack, dedup>>

(***************************************************************************)
(* NormalizeService: clean_html, clean_markdown, remove_special_chars,     *)
(* clean_whitespace, normalize_text.  A character outside ASCII, a control *)
(* character and the backtick are each the one-character string named by   *)
(* its code point.                                                         *)
(***************************************************************************)
\* the first index k >= i with text[k] in S, 0 when there is none
FirstIn(text, i, S) ==
    IF \E k \in i..Len(text) : text[k] \in S
    THEN CHOOSE k \in i..Len(text) :
            text[k] \in S /\ \A m \in i..(k - 1) : text[m] \notin S
    ELSE 0

\* the last index of the run of characters of S that starts at i (i - 1 when
\* text[i] is not in S)
RECURSIVE RunEnd(_, _, _)
RunEnd(text, i, S) ==
    IF i <= Len(text) /\ text[i] \in S THEN RunEnd(text, i + 1, S) ELSE i - 1

\* the last index of the run of characters not in S that starts at i
RECURSIVE RunEndNot(_, _, _)
RunEndNot(text, i, S) ==
    IF i <= Len(text) /\ text[i] \notin S THEN RunEndNot(text, i + 1, S) ELSE i - 1

Min(x, y) == IF x < y THEN x ELSE y

\* html.entities.html5, the names the model's texts can spell
HtmlEntities ==
    { [name |-> <<"a", "m", "p", ";">>, char |-> "&"],
      [name |-> <<"a", "m", "p">>,      char |-> "&"],
      [name |-> <<"l", "t", ";">>,      char |-> "<"],
      [name |-> <<"l", "t">>,           char |-> "<"],
      [name |-> <<"g", "t", ";">>,      char |-> ">"],
      [name |-> <<"g", "t">>,           char |-> ">"] }

IsEntity(name) == \E e \in HtmlEntities : e.name = name
EntityChar(name) == (CHOOSE e \in HtmlEntities : e.name = name).char

\* html.unescape's pattern at i: `&`, then 1 to 32 characters other than tab,
\* newline, form feed, space, `<`, `&`, `#`, `;`, then `;` if there is one.
\* Numeric references (&#...;) need a digit or an x, which no modelled text has.
\* The index of the last character matched, 0 without a match.
EntityStop == {"\t", NL, "\f", SP, "<", "&", "#", ";"}

EntityMatchEnd(text, i) ==
    IF text[i] # "&" THEN 0
    ELSE LET e == Min(RunEndNot(text, i + 1, EntityStop), i + 32)
         IN  IF e <= i THEN 0
             ELSE IF e < Len(text) /\ text[e + 1] = ";" THEN e + 1 ELSE e

\* html.unescape's replace_charref for a named reference s: the entity named s,
\* else the longest proper prefix of s (2 characters or more) that names an
\* entity followed by the rest of s, else `&` and s unchanged
RECURSIVE ReplacePrefix(_, _)
ReplacePrefix(s, x) ==
    IF x < 2 THEN <<"&">> \o s
    ELSE IF IsEntity(SubSeq(s, 1, x))
    THEN <<EntityChar(SubSeq(s, 1, x))>> \o Drop(s, x)
    ELSE ReplacePrefix(s, x - 1)

ReplaceCharref(s) ==
    IF IsEntity(s) THEN <<EntityChar(s)>> ELSE ReplacePrefix(s, Len(s) - 1)

\* r'<[^>]+>'
TagMatchEnd(text, i) ==
    IF text[i] # "<" THEN 0
    ELSE LET j == FirstIn(text, i + 1, {">"})
         IN  IF j >= i + 2 THEN j ELSE 0

\* r'\[([^\]]+)\]\([^\)]+\)': the indices of `]` and of the closing `)`
LinkMatch(text, i) ==
    IF text[i] # "[" THEN [close |-> 0, end |-> 0]
    ELSE LET j == FirstIn(text, i + 1, {"]"})
             k == IF j = 0 THEN 0 ELSE FirstIn(text, j + 2, {")"})
         IN  IF j >= i + 2 /\ j < Len(text) /\ text[j + 1] = "(" /\ k >= j + 3
             THEN [close |-> j, end |-> k]
             ELSE [close |-> 0, end |-> 0]

\* r'!\[([^\]]*)\]\([^\)]+\)'
ImageMatchEnd(text, i) ==
    IF ~(text[i] = "!" /\ i < Len(text) /\ text[i + 1] = "[") THEN 0
    ELSE LET j == FirstIn(text, i + 2, {"]"})
             k == IF j = 0 THEN 0 ELSE FirstIn(text, j + 2, {")"})
         IN  IF j >= i + 2 /\ j < Len(text) /\ text[j + 1] = "(" /\ k >= j + 3
             THEN k ELSE 0

\* r'^#+\s+' with re.MULTILINE
HeaderMatchEnd(text, i) ==
    IF ~((i = 1 \/ text[i - 1] = NL) /\ text[i] = "#") THEN 0
    ELSE LET h == RunEnd(text, i, {"#"})
             e == RunEnd(text, h + 1, Whitespace)
         IN  IF e > h THEN e ELSE 0

\* r'[*_]{1,3}([^*_]+)[*_]{1,3}': one to three markers, which must be the whole
\* run of markers at i, the characters up to the next marker, and up to three
\* of the markers that follow
Markers == {"*", "_"}

EmphasisMatch(text, i) ==
    IF text[i] \notin Markers THEN [open |-> 0, inner |-> 0, end |-> 0]
    ELSE LET o == RunEnd(text, i, Markers)
             e == RunEndNot(text, o + 1, Markers)
             c == RunEnd(text, e + 1, Markers)
         IN  IF o - i + 1 <= 3 /\ e > o /\ c > e
             THEN [open |-> o, inner |-> e, end |-> Min(c, e + 3)]
             ELSE [open |-> 0, inner |-> 0, end |-> 0]

\* r'```[^`]*```' with re.DOTALL
FenceMatchEnd(text, i) ==
    IF ~(i + 2 <= Len(text) /\ SubSeq(text, i, i + 2) = <<BT, BT, BT>>) THEN 0
    ELSE LET e == RunEndNot(text, i + 3, {BT})
         IN  IF e + 3 <= Len(text) /\ SubSeq(text, e + 1, e + 3) = <<BT, BT, BT>>
             THEN e + 3 ELSE 0

\* r'`([^`]+)`'
CodeSpanMatchEnd(text, i) ==
    IF text[i] # BT THEN 0
    ELSE LET e == RunEndNot(text, i + 1, {BT})
         IN  IF e > i /\ e < Len(text) THEN e + 1 ELSE 0

\* r' +'
SpacesMatchEnd(text, i) == IF text[i] = SP THEN RunEnd(text, i, {SP}) ELSE 0

\* r'\n{3,}'
NewlinesMatchEnd(text, i) ==
    LET e == RunEnd(text, i, {NL})
    IN  IF e - i + 1 >= 3 THEN e ELSE 0

\* where the named pattern's match at i ends, 0 without a match
MatchEnd(pattern, text, i) ==
    CASE pattern = "entity"   -> EntityMatchEnd(text, i)
      [] pattern = "tag"      -> TagMatchEnd(text, i)
      [] pattern = "link"     -> LinkMatch(text, i).end
      [] pattern = "image"    -> ImageMatchEnd(text, i)
      [] pattern = "header"   -> HeaderMatchEnd(text, i)
      [] pattern = "emphasis" -> EmphasisMatch(text, i).end
      [] pattern = "fence"    -> FenceMatchEnd(text, i)
      [] pattern = "codespan" -> CodeSpanMatchEnd(text, i)
      [] pattern = "spaces"   -> SpacesMatchEnd(text, i)
      [] pattern = "newlines" -> NewlinesMatchEnd(text, i)

\* what the match of the named pattern at i is replaced by
Replacement(pattern, text, i) ==
    CASE pattern = "entity"   -> ReplaceCharref(SubSeq(text, i + 1, EntityMatchEnd(text, i)))
      [] pattern = "link"     -> SubSeq(text, i + 1, LinkMatch(text, i).close - 1)
      [] pattern = "emphasis" -> SubSeq(text, EmphasisMatch(text, i).open + 1,
                                        EmphasisMatch(text, i).inner)
      [] pattern = "codespan" -> SubSeq(text, i + 1, CodeSpanMatchEnd(text, i) - 1)
      [] pattern = "spaces"   -> <<SP>>
      [] pattern = "newlines" -> <<NL, NL>>
      [] OTHER                -> <<>>

\* re.sub(pattern, repl, text) from index i on: matches are taken leftmost,
\* left to right, without overlap
RECURSIVE ReSub(_, _, _)
ReSub(pattern, text, i) ==
    IF i > Len(text) THEN <<>>
    ELSE LET e == MatchEnd(pattern, text, i)
         IN  IF e = 0
             THEN <<text[i]>> \o ReSub(pattern, text, i + 1)
             ELSE Replacement(pattern, text, i) \o ReSub(pattern, text, e + 1)

\* clean_html: html.unescape, then the tags are removed
CleanHtml(text) == ReSub("tag", ReSub("entity", text, 1), 1)

\* clean_markdown: links, images, headers, bold/italic markers, code
CleanMarkdown(text) ==
    LET links    == ReSub("link", text, 1)
        images   == ReSub("image", links, 1)
        headers  == ReSub("header", images, 1)
        emphasis == ReSub("emphasis", headers, 1)
        fences   == ReSub("fence", emphasis, 1)
    IN  ReSub("codespan", fences, 1)

\* r'[\x00-\x08\x0b-\x0c\x0e-\x1f\x7f-\x9f]', the ones the model names
ControlChars == {"U+0000", "U+0007", "U+0008", "U+000B", "\f", "U+001B", "U+007F", "U+0085"}

\* replacements
Replacements ==
    { [old |-> "U+2018", new |-> <<"'">>],
      [old |-> "U+2019", new |-> <<"'">>],
      [old |-> "U+201C", new |-> <<"\"">>],
      [old |-> "U+201D", new |-> <<"\"">>],
      [old |-> "U+2013", new |-> <<"-">>],
      [old |-> "U+2014", new |-> <<"-">>],
      [old |-> "U+2026", new |-> <<".", ".", ".">>] }

\* remove_special_chars
RECURSIVE RemoveSpecialChars(_)
RemoveSpecialChars(text) ==
    IF text = <<>> THEN <<>>
    ELSE LET c == text[1]
             out == IF c \in ControlChars THEN <<>>
                    ELSE IF \E r \in Replacements : r.old = c
                    THEN (CHOOSE r \in Replacements : r.old = c).new
                    ELSE <<c>>
         IN  out \o RemoveSpecialChars(Tail(text))

\* clean_whitespace without its final strip()
CleanWhitespace_NoStrip(text) == ReSub("newlines", ReSub("spaces", text, 1), 1)

\* clean_whitespace
CleanWhitespace(text) == Strip(ReSub("newlines", ReSub("spaces", text, 1), 1))

\* normalize_text
NormalizeText(text, clean_html_tags) ==
    IF text = <<>> THEN <<>>
    ELSE CleanWhitespace(RemoveSpecialChars(CleanMarkdown(
            IF clean_html_tags THEN CleanHtml(text) ELSE text)))

\* the pieces the texts handed to normalize_text are made of
NormFragments ==
    { <<"&">>, <<"a", "m", "p", ";">>, <<"l", "t", ";">>, <<"<", "b", ">">>, <<"<">>,
      <<">">>, <<"[", "a", "]">>, <<"(", "b", ")">>, <<"!">>, <<"#">>, <<"*">>, <<BT>>,
      <<"U+2026">>, <<"U+0007">>, <<"U+2019">>, <<SP>>, <<NL>>, <<"a">>,
      <<SP, SP>>, <<NL, NL, NL>> }

MaxFragments == 3

RECURSIVE Concat(_)
Concat(strs) == IF strs = <<>> THEN <<>> ELSE strs[1] \o Concat(Tail(strs))

NormTexts == {Concat(fs) : fs \in SeqsUpTo(NormFragments, MaxFragments)}

\* normalize_text(text, clean_html_tags)
NormalizeTextCalled(p, text, clean_html_tags) ==
    /\ pc[p] = "idle"
    /\ args' = [args EXCEPT ![p] = [op |-> "normalize_text", text |-> text,
                                    clean_html_tags |-> clean_html_tags]]
    /\ result' = [result EXCEPT ![p] =
                    [raised |-> FALSE, value |-> NormalizeText(text, clean_html_tags)]]
    /\ pc' = [pc EXCEPT ![p] = "done"]
    /\ UNCHANGED <<_normalize_service, instances, similarity_threshold, min_text_length, stack, dedup>>

CallNormalizeText(p) ==
    /\ pc[p] = "idle"
    /\ \E text \in NormTexts, clean_html_tags \in BOOLEAN :
            NormalizeTextCalled(p, text, clean_html_tags)

\* normalize_batch, first comprehension: normalize_text of every text from
\* index i on
RECURSIVE NormalizeEach(_, _, _)
NormalizeEach(texts, clean_html_tags, i) ==
    IF i > Len(texts) THEN <<>>
    ELSE <<NormalizeText(texts[i], clean_html_tags)>>
         \o NormalizeEach(texts, clean_html_tags, i + 1)

\* (mutant) the filter keeps only texts longer than min_text_length
RECURSIVE FilterTexts_Strict(_, _)
FilterTexts_Strict(normalized, min_len) ==
    IF normalized = <<>> THEN <<>>
    ELSE LET t == Head(normalized)
         IN  (IF t # <<>> /\ Len(t) > min_len THEN <<t>> ELSE <<>>)
             \o FilterTexts_Strict(Tail(normalized), min_len)

\* normalize_batch, second comprehension: `t and len(t) >= self.min_text_length`
RECURSIVE FilterTexts(_, _)
FilterTexts(normalized, min_len) ==
    IF normalized = <<>> THEN <<>>
    ELSE LET t == Head(normalized)
         IN  (IF t # <<>> /\ Len(t) >= min_len THEN <<t>> ELSE <<>>)
             \o FilterTexts(Tail(normalized), min_len)

\* normalize_batch before deduplication
BatchNormalized(texts, clean_html_tags, min_len) ==
    FilterTexts(NormalizeEach(texts, clean_html_tags, 1), min_len)

\* normalize_batch as a function
NormalizeBatch(texts, deduplicate, clean_html_tags, min_len, threshold) ==
    LET normalized == BatchNormalized(texts, clean_html_tags, min_len)
    IN  IF deduplicate THEN DeduplicateTexts(normalized, FALSE, min_len, threshold)
        ELSE normalized

\* texts handed to normalize_batch
BatchTexts ==
    { <<>>, <<"*", "a", "*">>, <<"A">>, <<"<", "b", ">">>, <<"a", "b">>,
      <<"<", "b", ">", "a", SP, SP, "b">> }

\* normalize_batch(texts, deduplicate, clean_html_tags); with deduplicate it
\* calls deduplicate_texts on the normalized list, which returns [] at once
\* for an empty list
NormalizeBatchCalled(p, texts, deduplicate, clean_html_tags) ==
    LET normalized == BatchNormalized(texts, clean_html_tags, min_text_length)
    IN  /\ pc[p] = "idle"
        /\ args' = [args EXCEPT ![p] = [op |-> "normalize_batch", texts |-> texts,
                                        deduplicate |-> deduplicate,
                                        clean_html_tags |-> clean_html_tags]]
        /\ IF deduplicate /\ normalized # <<>>
           THEN /\ pc' = [pc EXCEPT ![p] = "dedup"]
                /\ dedup' = [dedup EXCEPT ![p] = [NoDedup EXCEPT !.texts = normalized]]
                /\ UNCHANGED result
           ELSE /\ pc' = [pc EXCEPT ![p] = "done"]
                /\ result' = [result EXCEPT ![p] = [raised |-> FALSE, value |-> normalized]]
                /\ UNCHANGED dedup
        /\ UNCHANGED <<_normalize_service, instances, similarity_threshold, min_text_length, stack>>

CallNormalizeBatch(p) ==
    /\ pc[p] = "idle"
    /\ \E texts \in SeqsUpTo(BatchTexts, MaxTexts), deduplicate \in BOOLEAN,
           clean_html_tags \in BOOLEAN :
            NormalizeBatchCalled(p, texts, deduplicate, clean_html_tags)

(***************************************************************************)
(* NormalizeService.extract_metadata.                                      *)
(***************************************************************************)
\* len(text.split()): the number of maximal runs of non-whitespace characters
WordCount(text) ==
    Cardinality({i \in 1..Len(text) :
                    /\ text[i] \notin Whitespace
                    /\ (i = 1 \/ text[i - 1] \in Whitespace)})

\* re.search(pattern, text) finds a match
Search(pattern, text) == \E i \in 1..Len(text) : MatchEnd(pattern, text, i) # 0

Http == <<"h", "t", "t", "p", ":", "/", "/">>
Https == <<"h", "t", "t", "p", "s", ":", "/", "/">>

\* round(word_count / 200): Python rounds a half to the even neighbour
RoundWords(word_count) ==
    LET q == word_count \div 200
        r == word_count % 200
    IN  IF r < 100 THEN q
        ELSE IF r > 100 THEN q + 1
        ELSE IF q % 2 = 0 THEN q ELSE q + 1

\* len(text.split('\n'))
LineCount(text) == Len(StrSplit(text, <<NL>>))

ExtractMetadata(text) ==
    LET word_count == WordCount(text)
    IN  [character_count |-> Len(text),
         word_count |-> word_count,
         line_count |-> LineCount(text),
         has_html |-> Search("tag", text),
         has_urls |-> Contains(text, Http) \/ Contains(text, Https),
         has_code |-> Contains(text, <<BT, BT, BT>>) \/ Search("codespan", text),
         estimated_reading_time_minutes |->
            IF RoundWords(word_count) > 1 THEN RoundWords(word_count) ELSE 1]

MaxMetaLen == 4

MetaTexts ==
    SeqsUpTo({"a", SP, NL, "<", ">", BT}, MaxMetaLen)
        \cup {Http \o <<"a">>, <<"a", SP>> \o Https, <<"h", "t", "t", "p", ":", "/">>}

\* extract_metadata(text)
CallExtractMetadata(p) ==
    /\ pc[p] = "idle"
    /\ \E text \in MetaTexts :
        /\ args' = [args EXCEPT ![p] = [op |-> "extract_metadata", text |-> text]]
        /\ result' = [result EXCEPT ![p] =
                        [raised |-> FALSE, value |-> ExtractMetadata(text)]]
    /\ pc' = [pc EXCEPT ![p] = "done"]
    /\ UNCHANGED <<_normalize_service, instances, similarity_threshold, min_text_length, stack, dedup>>

(***************************************************************************)
(* get_normalize_service, a step for each of its reads and writes of the   *)
(* module-level variable: callers on different threads can be switched     *)
(* between any two of them.                                                *)
(***************************************************************************)
\* NormalizeService() as get_normalize_service constructs it
DefaultThreshold == 85
DefaultMinTextLength == 50

\* `_normalize_service = None`: no instance yet; the instances are numbered from 1
None == 0

\* get_normalize_service() is called
CallGetNormalizeService(p) ==
    /\ pc[p] = "idle"
    /\ args' = [args EXCEPT ![p] = [op |-> "get_normalize_service"]]
    /\ pc' = [pc EXCEPT ![p] = "get"]
    /\ UNCHANGED <<_normalize_service, instances, similarity_threshold, min_text_length,
                   stack, dedup, result>>

\* `if _normalize_service is None`
GetCheck(p) ==
    /\ pc[p] = "get"
    /\ pc' = [pc EXCEPT ![p] = IF _normalize_service = None THEN "construct" ELSE "return"]
    /\ UNCHANGED <<_normalize_service, instances, similarity_threshold, min_text_length,
                   args, stack, dedup, result>>

\* `NormalizeService()`: a new instance with the default configuration, held
\* by the caller until it is assigned
GetConstruct(p) ==
    /\ pc[p] = "construct"
    /\ instances' = instances + 1
    /\ similarity_threshold' = DefaultThreshold
    /\ min_text_length' = DefaultMinTextLength
    /\ stack' = [stack EXCEPT ![p] = <<[instance |-> instances + 1]>>]
    /\ pc' = [pc EXCEPT ![p] = "assign"]
    /\ UNCHANGED <<_normalize_service, args, dedup, result>>

\* `_normalize_service = ...`
GetAssign(p) ==
    /\ pc[p] = "assign"
    /\ _normalize_service' = stack[p][1].instance
    /\ stack' = [stack EXCEPT ![p] = <<>>]
    /\ pc' = [pc EXCEPT ![p] = "return"]
    /\ UNCHANGED <<instances, similarity_threshold, min_text_length, args, dedup, result>>

\* `return _normalize_service`
GetReturn(p) ==
    /\ pc[p] = "return"
    /\ result' = [result EXCEPT ![p] = [raised |-> FALSE, value |-> _normalize_service]]
    /\ pc' = [pc EXCEPT ![p] = "done"]
    /\ UNCHANGED <<_normalize_service, instances, similarity_threshold, min_text_length,
                   args, stack, dedup>>

\* The caller takes the returned value; the call's locals are gone.
Return(p) ==
    /\ pc[p] = "done"
    /\ pc' = [pc EXCEPT ![p] = "idle"]
    /\ args' = [args EXCEPT ![p] = [op |-> "none"]]
    /\ result' = [result EXCEPT ![p] = [raised |-> FALSE, value |-> <<>>]]
    /\ UNCHANGED <<_normalize_service, instances, similarity_threshold, min_text_length, stack, dedup>>

(***************************************************************************)
(* Specifications.                                                         *)
(***************************************************************************)
\* after startup: lifespan has called get_normalize_service, once
Started ==
    /\ _normalize_service = 1
    /\ instances = 1

InitCalls ==
    /\ pc = [p \in Procs |-> "idle"]
    /\ args = [p \in Procs |-> [op |-> "none"]]
    /\ stack = [p \in Procs |-> <<>>]
    /\ dedup = [p \in Procs |-> NoDedup]
    /\ result = [p \in Procs |-> [raised |-> FALSE, value |-> <<>>]]

InitChunk ==
    /\ Started
    /\ similarity_threshold = DefaultThreshold
    /\ min_text_length = DefaultMinTextLength
    /\ InitCalls

ChunkStep(p) ==
    \/ CallChunkText(p)
    \/ SplitOversized(p)
    \/ SplitFits(p)
    \/ SplitReturn(p)
    \/ Return(p)

NextChunk == ChunkStep(1)

SpecChunk == InitChunk /\ [][NextChunk]_vars

\* the configurations NormalizeService is constructed with
Thresholds == {50, 85}
MinTextLengths == {0, 2}

\* one instance, constructed with its own configuration and not kept in
\* _normalize_service
InitDedup ==
    /\ _normalize_service = None
    /\ instances = 1
    /\ similarity_threshold \in Thresholds
    /\ min_text_length \in MinTextLengths
    /\ InitCalls

DedupStep(p) ==
    \/ CallDeduplicateTexts(p)
    \/ DedupVisit(p)
    \/ DedupReturn(p)
    \/ CallCalculateSimilarity(p)
    \/ Return(p)

NextDedup == DedupStep(1)

SpecDedup == InitDedup /\ [][NextDedup]_vars

InitNormalize ==
    /\ Started
    /\ similarity_threshold = DefaultThreshold
    /\ min_text_length = DefaultMinTextLength
    /\ InitCalls

NormalizeStep(p) ==
    \/ CallNormalizeText(p)
    \/ Return(p)

NextNormalize == NormalizeStep(1)

SpecNormalize == InitNormalize /\ [][NextNormalize]_vars

BatchStep(p) ==
    \/ CallNormalizeBatch(p)
    \/ DedupVisit(p)
    \/ DedupReturn(p)
    \/ Return(p)

NextBatch == BatchStep(1)

SpecBatch == InitDedup /\ [][NextBatch]_vars

\* One caller of chunk_text and normalize_text, one call after the other
CoreStep(p) ==
    \/ CallChunkText(p)
    \/ SplitOversized(p)
    \/ SplitFits(p)
    \/ SplitReturn(p)
    \/ CallNormalizeText(p)
    \/ Return(p)

NextCore == CoreStep(1)

SpecCore == InitChunk /\ [][NextCore]_vars

MetadataStep(p) ==
    \/ CallExtractMetadata(p)
    \/ Return(p)

NextMetadata == MetadataStep(1)

SpecMetadata == InitNormalize /\ [][NextMetadata]_vars

\* chunk_text runs synchronously: once called, its piece walk keeps taking
\* steps until it returns
MaxLiveLen == 4

LiveTexts == SeqsUpTo({"a", SP, NL}, MaxLiveLen)

CallChunkTextLive(p) ==
    /\ pc[p] = "idle"
    /\ \E text \in LiveTexts, chunk_size \in 0..MaxChunkSize,
          chunk_overlap \in 0..MaxChunkSize :
            ChunkTextCalled(p, text, chunk_size, chunk_overlap)

WalkStep(p) ==
    \/ SplitOversized(p)
    \/ SplitFits(p)
    \/ SplitReturn(p)

ChunkLiveStep(p) ==
    \/ CallChunkTextLive(p)
    \/ WalkStep(p)
    \/ Return(p)

NextChunkLive == ChunkLiveStep(1)

SpecChunkLive == InitChunk /\ [][NextChunkLive]_vars /\ WF_vars(WalkStep(1))

\* deduplicate_texts(deduplicate_texts(xs)): the caller hands the list it got
\* back to deduplicate_texts, asking for the removed indices; `first` keeps xs
CallDeduplicateAgain(p) ==
    /\ pc[p] = "done"
    /\ args[p].op = "deduplicate_texts"
    /\ "first" \notin DOMAIN args[p]
    /\ LET kept == IF args[p].return_indices THEN result[p].value.texts
                   ELSE result[p].value
       IN  /\ args' = [args EXCEPT ![p] = [op |-> "deduplicate_texts", texts |-> kept,
                                           return_indices |-> TRUE,
                                           first |-> args[p].texts]]
           /\ IF kept = <<>>
              THEN /\ result' = [result EXCEPT ![p] =
                                    [raised |-> FALSE, value |-> DedupEmptyValue(TRUE)]]
                   /\ UNCHANGED <<pc, dedup>>
              ELSE /\ pc' = [pc EXCEPT ![p] = "dedup"]
                   /\ dedup' = [dedup EXCEPT ![p] = [NoDedup EXCEPT !.texts = kept]]
                   /\ result' = [result EXCEPT ![p] = [raised |-> FALSE, value |-> <<>>]]
    /\ UNCHANGED <<_normalize_service, instances, similarity_threshold, min_text_length, stack>>

TwiceStep(p) ==
    \/ CallDeduplicateTexts(p)
    \/ DedupVisit(p)
    \/ DedupReturn(p)
    \/ CallDeduplicateAgain(p)
    \/ Return(p)

NextTwice == TwiceStep(1)

\* deduplicate_texts run on a list and then on what it returned
SpecTwice == InitDedup /\ [][NextTwice]_vars

\* the module as imported: no instance yet
InitSingleton ==
    /\ _normalize_service = None
    /\ instances = 0
    /\ similarity_threshold = DefaultThreshold
    /\ min_text_length = DefaultMinTextLength
    /\ InitCalls

SingletonStep(p) ==
    \/ CallGetNormalizeService(p)
    \/ GetCheck(p)
    \/ GetConstruct(p)
    \/ GetAssign(p)
    \/ GetReturn(p)
    \/ Return(p)

NextSingleton == \E p \in Procs : SingletonStep(p)

\* callers of get_normalize_service on two threads
SpecSingleton == InitSingleton /\ [][NextSingleton]_vars

\* n copies of the character c
Rep(c, n) == [i \in 1..n |-> c]

\* texts longer than the signature: two with the same first SignatureLen
\* characters and different ends, and around them the first one in upper
\* case, one with another signature, and one below the default min_text_length
LongTexts ==
    { Rep("a", SignatureLen) \o Rep("b", 40), Rep("a", SignatureLen) \o Rep("c", 40),
      Rep("A", SignatureLen) \o Rep("B", 40), Rep("b", SignatureLen) \o Rep("a", 40),
      <<"a">> }

MaxLongTexts == 2

\* deduplicate_texts is called with a list of such texts
CallDeduplicateLong(p) ==
    /\ pc[p] = "idle"
    /\ \E texts \in SeqsUpTo(LongTexts, MaxLongTexts), return_indices \in BOOLEAN :
            DeduplicateTextsCalled(p, texts, return_indices)

LongStep(p) ==
    \/ CallDeduplicateLong(p)
    \/ DedupVisit(p)
    \/ DedupReturn(p)
    \/ Return(p)

NextLong == LongStep(1)

\* the default instance deduplicating texts longer than the signature
SpecLong == InitChunk /\ [][NextLong]_vars

\* Two callers of one shared NormalizeService and one shared EmbeddingService:
\* every step of either caller may come between two steps of the other.
ConcChunkCalls ==
    { [text |-> <<"a", SP, "b">>, chunk_size |-> 2, chunk_overlap |-> 0],
      [text |-> <<"a", SP, "b">>, chunk_size |-> 2, chunk_overlap |-> 1],
      [text |-> <<"a", "b", SP, "a">>, chunk_size |-> 1, chunk_overlap |-> 0],
      [text |-> <<>>, chunk_size |-> 2, chunk_overlap |-> 0] }

ConcDedupCalls ==
    { <<>>, << <<"a">>, <<"A">> >>, << <<"a">>, <<"a", "b">> >>,
      << <<"a", "b">>, <<"a">>, <<"a">> >> }

ConcBatchCalls ==
    { << <<"*", "a", "*">>, <<"A">> >>, << <<"<", "b", ">">>, <<"A">> >>,
      << <<"<", "b", ">">>, <<"<", "b", ">">> >> }

ConcNormTexts == { <<"*", "a", "*">>, <<"&", "a", "m", "p", ";">>, <<"<", "b", ">", "a">> }

ConcCall(p) ==
    /\ pc[p] = "idle"
    /\ \/ \E c \in ConcChunkCalls :
               ChunkTextCalled(p, c.text, c.chunk_size, c.chunk_overlap)
       \/ \E texts \in ConcDedupCalls, return_indices \in BOOLEAN :
               DeduplicateTextsCalled(p, texts, return_indices)
       \/ \E texts \in ConcBatchCalls, deduplicate \in BOOLEAN, clean_html_tags \in BOOLEAN :
               NormalizeBatchCalled(p, texts, deduplicate, clean_html_tags)
       \/ \E text \in ConcNormTexts, clean_html_tags \in BOOLEAN :
               NormalizeTextCalled(p, text, clean_html_tags)

ConcStep(p) ==
    \/ ConcCall(p)
    \/ SplitOversized(p)
    \/ SplitFits(p)
    \/ SplitReturn(p)
    \/ DedupVisit(p)
    \/ DedupReturn(p)
    \/ Return(p)

NextConcurrent == \E p \in Procs : ConcStep(p)

SpecConcurrent == InitDedup /\ [][NextConcurrent]_vars

(***************************************************************************)
(* Claims about chunk_text.                                                *)
(***************************************************************************)
ChunkDone(p) == pc[p] = "done" /\ args[p].op = "chunk_text"

\* 0 <= chunk_overlap < chunk_size, chunk_size >= 1
ValidConfig(a) ==
    /\ a.chunk_size >= 1
    /\ 0 <= a.chunk_overlap
    /\ a.chunk_overlap < a.chunk_size

\* C1: with a valid configuration and the default separators, every chunk
\* chunk_text returns is at most chunk_size characters long.
C1_ChunkSizeBound ==
    \A p \in Procs :
        ChunkDone(p) /\ ValidConfig(args[p]) =>
            \A i \in 1..Len(result[p].value) :
                Len(result[p].value[i]) <= args[p].chunk_size

\* C2: a chunk_text call with non-empty text and chunk_overlap >= chunk_size
\* is rejected before any splitting: it never enters the piece loop and it
\* ends in an error, never in a list of chunks.
C2_InvalidOverlapRejected ==
    \A p \in Procs :
        (/\ args[p].op = "chunk_text"
         /\ args[p].text # <<>>
         /\ args[p].chunk_overlap >= args[p].chunk_size)
        => pc[p] = "done" /\ result[p].raised

\* The text is the chunks' fresh parts in order, one separator occurrence (or
\* none) between two of them: each chunk is an overlap seed, which is a suffix
\* of the chunk before it, then a join separator or nothing, then its fresh
\* part.
RECURSIVE Reassembles(_, _, _, _)
Reassembles(text, prev, chunks, first) ==
    IF chunks = <<>> THEN text = <<>>
    ELSE
        LET c == chunks[1]
            Gaps == {DefaultSeparators[i] : i \in 1..Len(DefaultSeparators)}
            MaxSeed == IF first THEN 0 ELSE Len(prev)
        IN  \E k \in 0..MaxSeed, join \in Gaps, gap \in Gaps :
                /\ k + Len(join) <= Len(c)
                /\ SubSeq(c, 1, k) = SubSeq(prev, Len(prev) - k + 1, Len(prev))
                /\ SubSeq(c, k + 1, k + Len(join)) = join
                /\ first => gap = <<>>
                /\ LET fresh == Drop(c, k + Len(join))
                       n == Len(gap) + Len(fresh)
                   IN  /\ n <= Len(text)
                       /\ SubSeq(text, 1, n) = gap \o fresh
                       /\ Reassembles(Drop(text, n), c, Tail(chunks), FALSE)

RECURSIVE TotalLen(_)
TotalLen(strs) == IF strs = <<>> THEN 0 ELSE Len(strs[1]) + TotalLen(Tail(strs))

\* C3: with a valid configuration chunk_text loses no content: the chunks in
\* output order, each without its overlap seed, give back the text in input
\* order, nothing omitted, duplicated or reordered but separator occurrences
\* at chunk boundaries.
C3_NoContentLost ==
    \A p \in Procs :
        ChunkDone(p) /\ ValidConfig(args[p]) =>
            Reassembles(args[p].text, <<>>, result[p].value, TRUE)

\* C3 witness: a call with a valid configuration that split on spaces, returned
\* at least three chunks and repeated content in them, which only an overlap
\* seed carried from one chunk into the next does.
C3_Witness ==
    /\ ChunkDone(1) /\ ValidConfig(args[1])
    /\ args[1].chunk_overlap >= 1
    /\ Len(result[1].value) >= 3
    /\ Contains(args[1].text, <<SP>>)
    /\ ~Contains(args[1].text, <<NL>>)
    /\ TotalLen(result[1].value) > Len(args[1].text)

\* C10: no chunk chunk_text returns is empty or has leading or trailing
\* whitespace (so none is whitespace only).
C10_ChunksTrimmed ==
    \A p \in Procs :
        ChunkDone(p) =>
            \A i \in 1..Len(result[p].value) :
                LET c == result[p].value[i]
                IN  /\ c # <<>>
                    /\ c[1] \notin Whitespace
                    /\ c[Len(c)] \notin Whitespace

(***************************************************************************)
(* Claims about deduplicate_texts and calculate_similarity.                *)
(***************************************************************************)
DedupDone(p) == pc[p] = "done" /\ args[p].op = "deduplicate_texts"

\* the list of kept texts in what deduplicate_texts returned
KeptTexts(p) ==
    IF args[p].return_indices THEN result[p].value.texts ELSE result[p].value

\* xs is ys with some elements left out
RECURSIVE IsSubsequence(_, _)
IsSubsequence(xs, ys) ==
    IF xs = <<>> THEN TRUE
    ELSE IF ys = <<>> THEN FALSE
    ELSE IF xs[1] = ys[1] THEN IsSubsequence(Tail(xs), Tail(ys))
    ELSE IsSubsequence(xs, Tail(ys))

\* C5: the texts deduplicate_texts returns are a subsequence of its input:
\* input elements, unchanged, in their input order.
C5_KeptIsSubsequence ==
    \A p \in Procs : DedupDone(p) => IsSubsequence(KeptTexts(p), args[p].texts)

\* C5 witness: of three texts the middle one was removed and the other two,
\* which differ, were kept in their order.
C5_Witness ==
    /\ DedupDone(1)
    /\ Len(args[1].texts) = 3
    /\ args[1].texts[1] # args[1].texts[3]
    /\ KeptTexts(1) = <<args[1].texts[1], args[1].texts[3]>>

\* C6: calculate_similarity(a, b) == calculate_similarity(b, a).
C6_SimilaritySymmetric ==
    \A p \in Procs :
        pc[p] = "done" /\ args[p].op = "calculate_similarity" =>
            RatioEq(result[p].value, CalculateSimilarity(args[p].text2, args[p].text1))

\* the texts of xs at the 0-based indices from i on that are not in Removed
RECURSIVE TextsNotRemoved(_, _, _)
TextsNotRemoved(xs, Removed, i) ==
    IF i >= Len(xs) THEN <<>>
    ELSE (IF i \in Removed THEN <<>> ELSE <<xs[i + 1]>>)
         \o TextsNotRemoved(xs, Removed, i + 1)

\* the record deduplicate_texts(texts, return_indices=True) is to return
IndicesRecordOk(p) ==
    LET r == result[p].value
        n == Len(args[p].texts)
    IN  /\ DOMAIN r = {"texts", "removed_indices", "original_count", "deduplicated_count"}
        /\ \A i \in 1..Len(r.removed_indices) :
                /\ r.removed_indices[i] \in 0..(n - 1)
                /\ i > 1 => r.removed_indices[i - 1] < r.removed_indices[i]
        /\ r.texts = TextsNotRemoved(args[p].texts,
                {r.removed_indices[i] : i \in 1..Len(r.removed_indices)}, 0)
        /\ r.original_count = n
        /\ r.deduplicated_count = Len(r.texts)
        /\ r.deduplicated_count = r.original_count - Len(r.removed_indices)

\* C7: for every input list, the empty one too, deduplicate_texts(texts,
\* return_indices=True) returns a record whose removed_indices are, in
\* increasing order, the input indices of the texts that were not kept, whose
\* original_count is len(texts) and whose deduplicated_count is the number of
\* kept texts, original_count - len(removed_indices).
C7_IndicesRecord ==
    \A p \in Procs : DedupDone(p) /\ args[p].return_indices => IndicesRecordOk(p)

(***************************************************************************)
(* Claims about normalize_text and normalize_batch.                        *)
(***************************************************************************)
\* C4: normalize_text(normalize_text(t, True), True) == normalize_text(t, True).
C4_NormalizeIdempotent ==
    \A p \in Procs :
        pc[p] = "done" /\ args[p].op = "normalize_text" /\ args[p].clean_html_tags =>
            NormalizeText(result[p].value, TRUE) = result[p].value

\* the texts of xs from index i on that are not empty and not shorter than min_len
RECURSIVE LongEnough(_, _, _)
LongEnough(xs, min_len, i) ==
    IF i > Len(xs) THEN <<>>
    ELSE (IF xs[i] # <<>> /\ Len(xs[i]) >= min_len THEN <<xs[i]>> ELSE <<>>)
         \o LongEnough(xs, min_len, i + 1)

\* deduplicate_texts(xs): the loop run from its current locals to the end
RECURSIVE DeduplicateFrom(_, _, _)
DeduplicateFrom(d, min_len, threshold) ==
    IF d.idx >= Len(d.texts) THEN d.unique_texts
    ELSE DeduplicateFrom(VisitText(d, min_len, threshold), min_len, threshold)

\* C8: normalize_batch(texts, deduplicate=False) is normalize_text of each
\* item, in input order, without the results that are empty or shorter than
\* min_text_length; normalize_batch(texts, deduplicate=True) is
\* deduplicate_texts of that list, a subsequence of it.
C8_NormalizeBatch ==
    \A p \in Procs :
        pc[p] = "done" /\ args[p].op = "normalize_batch" =>
            LET each == [i \in 1..Len(args[p].texts) |->
                            NormalizeText(args[p].texts[i], args[p].clean_html_tags)]
                plain == LongEnough(each, min_text_length, 1)
            IN  IF args[p].deduplicate
                THEN /\ result[p].value =
                            DeduplicateFrom([NoDedup EXCEPT !.texts = plain],
                                            min_text_length, similarity_threshold)
                     /\ IsSubsequence(result[p].value, plain)
                ELSE result[p].value = plain

\* C8 witness: a finished normalize_batch(texts, deduplicate=True) of three
\* texts under min_text_length 2, of which two survived the length filter and
\* one of those two was removed as a duplicate of the other.
C8_Witness ==
    /\ pc[1] = "done" /\ args[1].op = "normalize_batch"
    /\ Len(args[1].texts) = 3
    /\ min_text_length = 2
    /\ Len(result[1].value) = 1
    /\ args[1].deduplicate
    /\ Len(BatchNormalized(args[1].texts, args[1].clean_html_tags, min_text_length)) = 2

\* what the call a returns when it runs alone on a fresh instance constructed
\* with the given min_text_length and similarity_threshold
AloneValue(a, min_len, threshold) ==
    CASE a.op = "chunk_text" ->
            ChunkText(a.text, a.chunk_size, a.chunk_overlap)
      [] a.op = "deduplicate_texts" ->
            DeduplicateTexts(a.texts, a.return_indices, min_len, threshold)
      [] a.op = "normalize_batch" ->
            NormalizeBatch(a.texts, a.deduplicate, a.clean_html_tags, min_len, threshold)
      [] a.op = "normalize_text" ->
            NormalizeText(a.text, a.clean_html_tags)

ResultsAsAlone ==
    \A p \in Procs :
        pc[p] = "done" =>
            /\ ~result[p].raised
            /\ result[p].value = AloneValue(args[p], min_text_length, similarity_threshold)

ConfigurationKept ==
    /\ similarity_threshold' = similarity_threshold
    /\ min_text_length' = min_text_length

\* C9: with two callers interleaved step by step on the shared instances, and
\* after any earlier calls, every finished chunk_text, deduplicate_texts,
\* normalize_batch and normalize_text call holds the value the same call
\* returns when run alone from start to end under the same configuration,
\* and no step of any call changes similarity_threshold or min_text_length.
C9_NoInterference == []ResultsAsAlone /\ [][ConfigurationKept]_vars

\* C9 witness: caller 1 has finished a deduplicate_texts call that removed a
\* text while caller 2 is inside the deduplication loop of a normalize_batch
\* call, past its first text and before its last.
C9_Witness ==
    /\ pc[1] = "done" /\ args[1].op = "deduplicate_texts"
    /\ Len(args[1].texts) = 2
    /\ args[1].return_indices
    /\ result[1].value.removed_indices # <<>>
    /\ pc[2] = "dedup" /\ args[2].op = "normalize_batch"
    /\ dedup[2].idx = 1 /\ Len(dedup[2].texts) = 2

\* text[a : a + chunk_size] for a = 0, S - k, 2(S - k), ... up to the first
\* window that reaches the end of the text (a is Python's 0-based start)
RECURSIVE Windows(_, _, _, _)
Windows(text, a, chunk_size, chunk_overlap) ==
    IF a + chunk_size >= Len(text)
    THEN <<SubSeq(text, a + 1, Len(text))>>
    ELSE <<SubSeq(text, a + 1, a + chunk_size)>>
         \o Windows(text, a + chunk_size - chunk_overlap, chunk_size, chunk_overlap)

NoSeparatorIn(text) == \A i \in 1..Len(text) : text[i] \notin {SP, NL}

CeilDiv(n, d) == (n + d - 1) \div d

\* C11: for a non-empty text without newline or space, chunk_size S >= 1 and
\* overlap 0 <= k < S, chunk_text returns the sliding windows of width S and
\* stride S - k up to the first window that reaches the end of the text; with
\* k = 0 these are ceil(n/S) slices, all of length S except possibly the last,
\* that concatenate to the text.
C11_CharacterWindows ==
    \A p \in Procs :
        LET a == args[p]
            chunks == result[p].value
        IN  (/\ ChunkDone(p) /\ a.text # <<>> /\ NoSeparatorIn(a.text)
             /\ a.chunk_size >= 1 /\ a.chunk_overlap < a.chunk_size)
            =>  /\ chunks = Windows(a.text, 0, a.chunk_size, a.chunk_overlap)
                /\ a.chunk_overlap = 0 =>
                    /\ Len(chunks) = CeilDiv(Len(a.text), a.chunk_size)
                    /\ \A i \in 1..(Len(chunks) - 1) : Len(chunks[i]) = a.chunk_size
                    /\ Len(chunks[Len(chunks)]) \in 1..a.chunk_size
                    /\ Concat(chunks) = a.text

\* C11 witness: a five-character text without separators cut with chunk_size 3
\* and overlap 1 into the windows text[0:3] and text[2:5], which share one
\* character.
C11_Witness ==
    /\ ChunkDone(1) /\ NoSeparatorIn(args[1].text)
    /\ Len(args[1].text) = 5
    /\ args[1].chunk_size = 3 /\ args[1].chunk_overlap = 1
    /\ Len(result[1].value) = 2
    /\ result[1].value[2] = SubSeq(args[1].text, 3, 5)

\* C12: chunk_text("", chunk_size, chunk_overlap) returns the empty list and
\* normalize_text("", clean_html_tags) returns the empty string, without
\* raising, for every chunk_size, chunk_overlap and clean_html_tags.
C12_EmptyTextNoError ==
    \A p \in Procs :
        /\ (ChunkDone(p) /\ args[p].text = <<>>) =>
                ~result[p].raised /\ result[p].value = <<>>
        /\ (pc[p] = "done" /\ args[p].op = "normalize_text" /\ args[p].text = <<>>) =>
                ~result[p].raised /\ result[p].value = <<>>

\* C12 witness: a finished chunk_text("") call whose chunk_size is 0 and whose
\* chunk_overlap is larger than it.
C12_Witness ==
    /\ ChunkDone(1) /\ args[1].text = <<>>
    /\ args[1].chunk_size = 0 /\ args[1].chunk_overlap > 0
    /\ stack[1] = <<>>
    /\ result[1] = [raised |-> FALSE, value |-> <<>>]

\* C13: extract_metadata of the empty string reports character_count,
\* word_count and line_count all zero.
C13_EmptyMetadataZero ==
    \A p \in Procs :
        (pc[p] = "done" /\ args[p].op = "extract_metadata" /\ args[p].text = <<>>) =>
            /\ result[p].value.character_count = 0
            /\ result[p].value.word_count = 0
            /\ result[p].value.line_count = 0

SimilarityDone(p) == pc[p] = "done" /\ args[p].op = "calculate_similarity"

\* the ratio is 1.0
IsOne(x) == x.length = 0 \/ 2 * x.matches = x.length

\* C14: calculate_similarity(a, b) is 1.0 whenever a and b are equal after
\* lower-casing and trimming (so calculate_similarity(a, a) is 1.0, the empty
\* string included), and for all a, b the matched length M satisfies
\* 0 <= 2M <= len(a') + len(b') for the lower-cased, trimmed a', b'.
C14_SimilarityReflexiveInRange ==
    \A p \in Procs :
        SimilarityDone(p) =>
            LET a == Strip(Lower(args[p].text1))
                b == Strip(Lower(args[p].text2))
                x == result[p].value
            IN  /\ x.length = Len(a) + Len(b)
                /\ 0 <= 2 * x.matches /\ 2 * x.matches <= x.length
                /\ a = b => IsOne(x)
                /\ args[p].text1 = args[p].text2 => IsOne(x)

\* C14 witness: two different texts, equal after lower-casing and trimming
\* and not empty, with ratio 1.0.
C14_Witness ==
    /\ SimilarityDone(1)
    /\ args[1].text1 # args[1].text2
    /\ Lower(args[1].text1) # Lower(args[1].text2)
    /\ Strip(args[1].text1) # Strip(args[1].text2)
    /\ Strip(Lower(args[1].text1)) = Strip(Lower(args[1].text2))
    /\ result[1].value.length > 0
    /\ 2 * result[1].value.matches = result[1].value.length

\* the ratio x is strictly below the threshold (in hundredths)
RatioBelow(x, threshold) ==
    IF x.length = 0 THEN 100 < threshold
    ELSE 200 * x.matches < threshold * x.length

\* the indices (1-based) of the texts kept among the first n, by the rule of
\* the claim: long enough, a signature no kept text has, and a ratio strictly
\* below the threshold to every kept text
RECURSIVE KeptIndices(_, _, _, _)
KeptIndices(texts, n, min_len, threshold) ==
    IF n = 0 THEN {}
    ELSE LET before == KeptIndices(texts, n - 1, min_len, threshold)
             keep ==
                /\ Len(texts[n]) >= min_len
                /\ \A k \in before :
                        Take(Strip(Lower(texts[k])), 200) # Take(Strip(Lower(texts[n])), 200)
                /\ \A k \in before :
                        RatioBelow(Ratio(Strip(Lower(texts[n])), Strip(Lower(texts[k]))),
                                   threshold)
         IN  IF keep THEN before \cup {n} ELSE before

\* the elements of xs at the indices of I, in order
RECURSIVE SelectIndices(_, _, _)
SelectIndices(xs, I, i) ==
    IF i > Len(xs) THEN <<>>
    ELSE (IF i \in I THEN <<xs[i]>> ELSE <<>>) \o SelectIndices(xs, I, i + 1)

\* C15: at every point of the deduplicate_texts loop and at its end, the kept
\* texts are exactly the visited texts that are at least min_text_length long,
\* whose signature differs from that of every text kept before them and whose
\* ratio to every text kept before them is strictly below
\* similarity_threshold; the recorded signatures are those of the kept texts
\* alone, and every other visited index is recorded as removed.
C15_KeepRule ==
    \A p \in Procs :
        /\ pc[p] = "dedup" =>
            LET d == dedup[p]
                K == KeptIndices(d.texts, d.idx, min_text_length, similarity_threshold)
            IN  /\ d.unique_texts = SelectIndices(d.texts, K, 1)
                /\ d.seen_signatures = {Signature(d.texts[k]) : k \in K}
                /\ d.removed_indices =
                        SelectIndices([i \in 1..d.idx |-> i - 1], (1..d.idx) \ K, 1)
        /\ (DedupDone(p) /\ args[p].texts # <<>>) =>
            LET K == KeptIndices(args[p].texts, Len(args[p].texts),
                                 min_text_length, similarity_threshold)
            IN  KeptTexts(p) = SelectIndices(args[p].texts, K, 1)

\* C15 witness: a finished deduplicate_texts of two texts, both long enough and
\* with different signatures, whose ratio is exactly similarity_threshold: the
\* second one was dropped.
C15_Witness ==
    /\ DedupDone(1) /\ Len(args[1].texts) = 2
    /\ Len(args[1].texts[1]) >= min_text_length
    /\ Len(args[1].texts[2]) >= min_text_length
    /\ Signature(args[1].texts[1]) # Signature(args[1].texts[2])
    /\ LET x == CalculateSimilarity(args[1].texts[2], args[1].texts[1])
       IN  x.length > 0 /\ 200 * x.matches = similarity_threshold * x.length
    /\ KeptTexts(1) = <<args[1].texts[1]>>

\* the last n pieces of a list of pieces
LastPieces(pieces, n) == SubSeq(pieces, Len(pieces) - n + 1, Len(pieces))

\* a step of caller p's piece walk that flushed the accumulator because the
\* piece did not fit: the same frame is on top, one piece further, with one
\* more chunk and the piece in its accumulator
FlushStep(p) ==
    /\ pc[p] = "split" /\ pc'[p] = "split"
    /\ Len(stack'[p]) = Len(stack[p])
    /\ Top(p)'.idx = Top(p).idx + 1
    /\ Len(Top(p)'.final_chunks) = Len(Top(p).final_chunks) + 1
    /\ Top(p)'.current_chunk # <<>>

\* the overlap seed of the step: the new accumulator without the piece just added
SeedOfStep(p) == SubSeq(Top(p)'.current_chunk, 1, Len(Top(p)'.current_chunk) - 1)

SeedWithinOverlap(p) ==
    LET f == Top(p)
        seed == SeedOfStep(p)
        k == args[p].chunk_overlap
    IN  /\ Len(seed) <= Len(f.current_chunk)
        /\ seed = LastPieces(f.current_chunk, Len(seed))
        /\ Len(StrJoin(f.separator, seed)) <= k
        /\ \A n \in (Len(seed) + 1)..Len(f.current_chunk) :
                Len(StrJoin(f.separator, LastPieces(f.current_chunk, n))) > k
        /\ k = 0 => seed = <<>>

\* C16: for a valid configuration, whenever the accumulator is flushed because
\* the next piece does not fit, the seed the next accumulator starts with is
\* the longest suffix of the flushed pieces whose separator-joined length is
\* <= chunk_overlap, so it is never longer than chunk_overlap characters, and
\* it is empty when chunk_overlap = 0.
C16_SeedWithinOverlap ==
    [][\A p \in Procs :
            (FlushStep(p) /\ ValidConfig(args[p])) => SeedWithinOverlap(p)]_vars

\* the running length of frame f is the length of its accumulator joined with
\* the separator
LengthIsJoined(f) == f.current_length = Len(StrJoin(f.separator, f.current_chunk))

\* the fit test of frame f (sep_len is charged when current_length > 0) charges
\* the join separator exactly when the accumulator is non-empty
ChargesWhenNonEmpty(f) == (f.current_length > 0) <=> (f.current_chunk # <<>>)

\* C17: for a valid configuration, at every step of the piece walk, in every
\* frame of _recursive_split, current_length equals the length of the
\* accumulator's pieces joined with the selected separator, and the fit test
\* charges a join separator exactly when the accumulator is non-empty.
C17_RunningLength ==
    \A p \in Procs :
        (pc[p] = "split" /\ args[p].op = "chunk_text" /\ ValidConfig(args[p])) =>
            \A n \in 1..Len(stack[p]) :
                /\ LengthIsJoined(stack[p][n])
                /\ Len(stack[p][n].separator) > 0 => ChargesWhenNonEmpty(stack[p][n])

\* the separator list frame n of caller p was called with
GivenSeparators(p, n) ==
    IF n = 1 THEN DefaultSeparators ELSE stack[p][n - 1].new_separators

\* every frame passes on a strictly shorter separator list than it was given,
\* so there are never more frames than default separators, and no frame's
\* piece index runs past the end of its pieces
DepthBounded(p) ==
    /\ Len(stack[p]) <= Len(DefaultSeparators)
    /\ \A n \in 1..Len(stack[p]) :
            /\ Len(stack[p][n].new_separators) < Len(GivenSeparators(p, n))
            /\ stack[p][n].idx \in 1..(Len(stack[p][n].splits) + 1)

\* a step of caller p's walk visits the next piece of one frame and emits at
\* most one chunk of that frame's own, or returns from a frame whose pieces
\* are all visited with at most one last chunk
VisitsOnePiece(p) ==
    LET n == Len(stack[p])
        m == Len(stack'[p])
    IN  (pc[p] = "split" /\ stack'[p] # stack[p]) =>
            \/ /\ m >= n
               /\ \A i \in 1..(n - 1) : stack'[p][i] = stack[p][i]
               /\ stack'[p][n].idx = stack[p][n].idx + 1
               /\ stack'[p][n].splits = stack[p][n].splits
               /\ Len(stack'[p][n].final_chunks) <= Len(stack[p][n].final_chunks) + 1
               /\ m > n => (m = n + 1 /\ stack'[p][m].idx = 1
                                      /\ stack'[p][m].final_chunks = <<>>)
            \/ /\ m = n - 1
               /\ stack[p][n].idx = Len(stack[p][n].splits) + 1
               /\ Len(FinalChunks(stack[p][n])) <= Len(stack[p][n].final_chunks) + 1
               /\ m >= 1 => stack'[p][m].idx = stack[p][m].idx

\* C18: every chunk_text call that has entered _recursive_split returns, for
\* every chunk_size and chunk_overlap (chunk_overlap >= chunk_size included);
\* on the way each recursive call holds a strictly shorter separator list, the
\* recursion is at most as deep as the default separator list is long, and
\* each step visits one piece of one level once and emits at most one chunk
\* of that level.
C18_Terminates ==
    /\ \A p \in Procs : (pc[p] = "split") ~> (pc[p] = "done")
    /\ [](\A p \in Procs : DepthBounded(p))
    /\ [][\A p \in Procs : VisitsOnePiece(p)]_vars

\* C18 witness: a finished call with chunk_overlap >= chunk_size >= 1 on a text
\* with newlines and a space, which went through more than one recursion level
\* and returned three or more chunks.
C18_Witness ==
    /\ ChunkDone(1)
    /\ args[1].chunk_size >= 1 /\ args[1].chunk_overlap >= args[1].chunk_size
    /\ Contains(args[1].text, <<NL>>) /\ Contains(args[1].text, <<SP>>)
    /\ Len(StrSplit(args[1].text, <<NL>>)[1]) > args[1].chunk_size
    /\ Len(result[1].value) >= 3

\* frame f, called with the separator list given, splits on the first
\* non-empty separator of the list that occurs in its text and passes on the
\* separators after it; when none occurs it splits into single characters and
\* passes on nothing
SplitsOnFirstOccurring(f, given) ==
    LET Occurring == {i \in 1..Len(given) :
                        given[i] # <<>> /\ Contains(f.text, given[i])}
    IN  IF Occurring # {}
        THEN LET i == CHOOSE i \in Occurring : \A j \in Occurring : i <= j
             IN  /\ f.separator = given[i]
                 /\ f.new_separators = SubSeq(given, i + 1, Len(given))
                 /\ f.splits = StrSplit(f.text, given[i])
                 /\ StrJoin(given[i], f.splits) = f.text
                 /\ \A k \in 1..Len(f.splits) : ~Contains(f.splits[k], given[i])
        ELSE /\ f.separator = <<>>
             /\ f.new_separators = <<>>
             /\ Len(f.splits) = Len(f.text)
             /\ \A k \in 1..Len(f.splits) : f.splits[k] = <<f.text[k]>>

\* C19: at every recursion level _recursive_split splits on the first
\* separator of its list, in priority order, that occurs in the text, and
\* passes exactly the separators after it to recursive calls; when no
\* non-empty separator of the list occurs in the text it splits into single
\* characters and has no separators left for recursion.
C19_SeparatorChoice ==
    \A p \in Procs :
        pc[p] = "split" =>
            \A n \in 1..Len(stack[p]) :
                SplitsOnFirstOccurring(stack[p][n], GivenSeparators(p, n))

\* C19 witness: a text split on the blank line at the top level, with a piece
\* that holds no newline being split on the space one level down, the newline
\* separator skipped and only the empty separator left.
C19_Witness ==
    /\ pc[1] = "split" /\ Len(stack[1]) = 2
    /\ stack[1][1].separator = <<NL, NL>>
    /\ stack[1][1].new_separators = << <<NL>>, <<SP>>, <<>> >>
    /\ stack[1][2].separator = <<SP>>
    /\ stack[1][2].new_separators = << <<>> >>
    /\ Len(stack[1][2].splits) >= 2

\* the chunk the accumulator of frame f is flushed as, if it holds anything
Flushed(f) ==
    IF f.current_chunk # <<>> THEN <<StrJoin(f.separator, f.current_chunk)>> ELSE <<>>

\* caller p's walk meets an oversized piece in its top frame: that frame gains
\* the flushed accumulator (then the piece verbatim when no separators are
\* left), its accumulator is empty, and with separators left a fresh frame for
\* the piece with those separators is entered
OversizedStepOk(p) ==
    LET n == Len(stack[p])
        f == stack[p][n]
        g == stack'[p][n]
        split == f.splits[f.idx]
    IN  /\ Len(stack'[p]) >= n
        /\ g.current_chunk = <<>> /\ g.current_length = 0
        /\ g.idx = f.idx + 1
        /\ IF f.new_separators = <<>>
           THEN /\ Len(stack'[p]) = n
                /\ g.final_chunks = f.final_chunks \o Flushed(f) \o <<split>>
           ELSE /\ Len(stack'[p]) = n + 1
                /\ g.final_chunks = f.final_chunks \o Flushed(f)
                /\ stack'[p][n + 1] = EnterSplit(split, f.new_separators)

\* the recursive call on an oversized piece returns to caller p's frame below:
\* that frame gains exactly the chunks of the recursive split of the piece, in
\* order, and its accumulator is still empty
RecursionReturnOk(p) ==
    LET n == Len(stack[p])
        child == stack[p][n]
        f == stack[p][n - 1]
        g == stack'[p][n - 1]
    IN  /\ child.text = f.splits[f.idx - 1]
        /\ f.current_chunk = <<>>
        /\ g.current_chunk = <<>> /\ g.current_length = 0
        /\ g.idx = f.idx
        /\ g.final_chunks =
                f.final_chunks \o RecursiveSplit(child.text, args[p].chunk_size,
                                                 args[p].chunk_overlap, f.new_separators)

\* C20: when the piece walk meets a piece longer than chunk_size the output
\* gains, in this order, the flushed accumulator (if non-empty) and then
\* exactly the chunks of the recursive split of the piece with the
\* lower-priority separators (or the piece verbatim when none remain), and the
\* accumulator is empty afterwards.
C20_OversizedPiece ==
    [][\A p \in Procs :
        (pc[p] = "split" /\ stack'[p] # stack[p]) =>
            LET n == Len(stack[p])
                f == stack[p][n]
            IN  /\ (f.idx <= Len(f.splits) /\ Len(f.splits[f.idx]) > args[p].chunk_size)
                        => OversizedStepOk(p)
                /\ (f.idx > Len(f.splits) /\ n > 1) => RecursionReturnOk(p)]_vars

\* C20 witness: the walk has accumulated a piece, met an oversized piece,
\* flushed the accumulator as the first chunk and entered the recursive split
\* of the oversized piece with an empty accumulator behind it.
C20_Witness ==
    /\ pc[1] = "split" /\ Len(stack[1]) = 2
    /\ ValidConfig(args[1])
    /\ Len(stack[1][1].splits[1]) <= args[1].chunk_size
    /\ Len(stack[1][1].splits[2]) > args[1].chunk_size
    /\ stack[1][1].idx = 3
    /\ Len(stack[1][1].final_chunks) = 1
    /\ stack[1][1].final_chunks[1] = stack[1][1].splits[1]
    /\ stack[1][1].splits[1] # <<>>
    /\ stack[1][1].current_chunk = <<>>
    /\ stack[1][2].text = stack[1][1].splits[2]
    /\ stack[1][2].idx = 1

\* text holds n adjacent copies of the character c
HasRun(text, c, n) ==
    \E i \in 1..(Len(text) - n + 1) : \A k \in 0..(n - 1) : text[i + k] = c

\* the characters remove_special_chars removes or replaces
SpecialChars == ControlChars \cup {r.old : r \in Replacements}

\* the shape of a normalized text
Normalized(text) ==
    /\ ~HasRun(text, SP, 2)
    /\ ~HasRun(text, NL, 3)
    /\ text # <<>> => text[1] \notin Whitespace /\ text[Len(text)] \notin Whitespace
    /\ \A i \in 1..Len(text) : text[i] \notin SpecialChars

\* C21: every result of normalize_text, with either value of clean_html_tags,
\* has no two adjacent spaces, no three adjacent newlines, no leading or
\* trailing whitespace and none of the characters remove_special_chars removes
\* or replaces, and clean_whitespace returns it unchanged
C21_NormalizedShape ==
    \A p \in Procs :
        pc[p] = "done" /\ args[p].op = "normalize_text" =>
            /\ Normalized(result[p].value)
            /\ CleanWhitespace(result[p].value) = result[p].value

\* normalize_text returned "a", two newlines, "...", "a" for a text with three
\* adjacent newlines and an ellipsis character between two letters
C21_Witness ==
    /\ pc[1] = "done"
    /\ args[1].op = "normalize_text"
    /\ args[1].text = <<"a", NL, NL, NL, "U+2026">>
    /\ result[1].value = <<"a", NL, NL, ".", ".", ".">>

\* the indices (1-based) of the texts kept among the first n by the pass
\* without the signature check: long enough, and no ratio at or above the
\* threshold to a text kept before
RECURSIVE FuzzyKeptIndices(_, _, _, _)
FuzzyKeptIndices(texts, n, min_len, threshold) ==
    IF n = 0 THEN {}
    ELSE LET before == FuzzyKeptIndices(texts, n - 1, min_len, threshold)
             keep ==
                /\ Len(texts[n]) >= min_len
                /\ \A k \in before :
                        ~RatioAtLeast(CalculateSimilarity(texts[n], texts[k]), threshold)
         IN  IF keep THEN before \cup {n} ELSE before

\* C22: the signature check of deduplicate_texts is only a short-circuit of the
\* fuzzy check: for every input list the kept texts and the removed indices are
\* those of the same pass run without the signature check
C22_SignatureIsShortCircuit ==
    \A p \in Procs :
        (DedupDone(p) /\ args[p].texts # <<>>) =>
            LET n == Len(args[p].texts)
                K == FuzzyKeptIndices(args[p].texts, n, min_text_length, similarity_threshold)
            IN  /\ KeptTexts(p) = SelectIndices(args[p].texts, K, 1)
                /\ args[p].return_indices =>
                        result[p].value.removed_indices =
                            SelectIndices([i \in 1..n |-> i - 1], (1..n) \ K, 1)

\* every text of kept is long enough, and differs in signature from, and has a
\* ratio below the threshold to, every text before it in kept
PairwiseDistinct(kept, min_len, threshold) ==
    \A i \in 1..Len(kept) :
        /\ Len(kept[i]) >= min_len
        /\ \A j \in 1..(i - 1) :
                /\ Signature(kept[i]) # Signature(kept[j])
                /\ RatioBelow(CalculateSimilarity(kept[i], kept[j]), threshold)

\* C23: deduplicate_texts is idempotent: a second pass over the kept list,
\* with the same configuration, returns the kept list and removes nothing,
\* and the kept texts are pairwise distinct in the sense the pass tests
C23_DedupIdempotent ==
    \A p \in Procs :
        (DedupDone(p) /\ "first" \in DOMAIN args[p]) =>
            /\ PairwiseDistinct(args[p].texts, min_text_length, similarity_threshold)
            /\ result[p].value.texts = args[p].texts
            /\ result[p].value.removed_indices = <<>>

\* C23 witness: the second pass is over; the first one had removed a text that
\* was long enough and kept two or more, so that the second one had
\* comparisons to make
C23_Witness ==
    /\ DedupDone(1)
    /\ "first" \in DOMAIN args[1]
    /\ Len(args[1].texts) >= 2
    /\ Len(args[1].texts) < Len(args[1].first)
    /\ \E i \in 1..Len(args[1].first) :
            /\ Len(args[1].first[i]) >= min_text_length
            /\ \A k \in 1..Len(args[1].texts) : args[1].texts[k] # args[1].first[i]

\* C24: get_normalize_service constructs at most one NormalizeService during
\* the life of the process and returns that one instance to every caller,
\* callers whose first calls are interleaved included
C24_OneInstance ==
    /\ instances <= 1
    /\ \A p \in Procs :
            (pc[p] = "done" /\ args[p].op = "get_normalize_service") =>
                /\ result[p].value = 1
                /\ result[p].value = _normalize_service
====
